---- MODULE Spec2Model ----
(***************************************************************************)
(* MyContainer<T> (containers namespace) and its six iterator classes:     *)
(* Order, ReverseOrder, AscendingOrder, DescendingOrder, SideCrossOrder    *)
(* and MiddleOutOrder.                                                     *)
(*                                                                         *)
(* Conventions.  A std::vector is a sequence; C++ positions are 0-based,   *)
(* so position i of vector v is At(v, i) = v[i + 1].  The values stored in *)
(* the index vectors are the 0-based positions the C++ code stores.        *)
(* size_t arithmetic is unsigned and wraps modulo SizeMod.  An exception   *)
(* is an outcome record whose field raised names the exception.            *)
(* std::sort leaves the order of equivalent elements unspecified, so a     *)
(* sort is the set of all orders the comparator allows.                    *)
(***************************************************************************)
EXTENDS Integers, Sequences, FiniteSets, TLC

\* largest number of elements added to the container
MaxSize == 5
\* the element type T is int; the values added are 1 .. MaxVal
MaxVal == 3
\* largest container the tests that drive an iterator by hand are run on
MaxIterSize == 3
\* how many more times than there are elements such a test advances
MaxExtra == 2
\* most calls of add in a test that also removes, reads by index or writes
\* the container to a stream
MaxAdds == 4

\* the most elements the container has in the tests of copies
MaxCopySize == 2

\* most calls of add and remove a test makes after it has made an iterator
MaxChanges == 1

Values == 1 .. MaxVal

\* size_t: unsigned, arithmetic modulo SizeMod (16 bits stand for the 64 of
\* the build; every size of the model is far below either)
SizeMod == 2 ^ 16
SizeSub(a, b) == (a - b + SizeMod) % SizeMod
SizeAdd(a, b) == (a + b) % SizeMod

\* v[i] of a std::vector, i a 0-based position below v.size()
At(v, i) == v[i + 1]
\* v[i] = x of a std::vector
Store(v, i, x) == [v EXCEPT ![i + 1] = x]
\* v.resize(n) of an empty vector of size_t: n value-initialised slots
Resized(n) == [k \in 1 .. n |-> 0]
\* the loop "for (i = 0; i < n; ++i) sorted_indices[i] = i"
Iota(n) == [k \in 1 .. n |-> k - 1]

VARIABLES
    elements,   \* MyContainer::elements, the backing std::vector<T>
    values,     \* the test's vector of values handed to add, in call order
    it,         \* the iterator in use: the one the factory returned, then
                \* __begin of the range-for
    end_it,     \* __end of the range-for, without its index vector
    out,        \* the values the loop body received from operator*, in order
    reads,      \* the positions of elements those values were read from
    pc,         \* where the test is: "build", "made", "loop", "done", "raised",
                \* with the iterator driven by hand "free", and "printed"
    begin_it,   \* "auto first = it.begin()" of a test, without its index vector
    steps,      \* how often the test has advanced it
    last,       \* the last call of the test and what came of it
    before,     \* the test's copy of elements made ahead of that call
    it2,        \* a second iterator of the test: a copy of it, the iterator
                \* it++ returned, or the result of a second factory call
    text,       \* the characters written to the test's std::stringstream
    changes     \* how often the test has called add or remove since it made
                \* the iterator

vars == <<elements, values, it, end_it, out, reads, pc,
          begin_it, steps, last, before, it2, text, changes>>

----------------------------------------------------------------------------
(* MyContainer: add, remove, size, operator[]                              *)

\* a faulty add: the value is put in front
addFront(c, value) == <<value>> \o c

\* MyContainer::add
add(c, value) == Append(c, value)

\* MyContainer::size
size(c) == Len(c)

\* the outcome of a throw of std::out_of_range
OutOfRange == [raised |-> "out_of_range", val |-> 0, idx |-> 0]
\* the outcome of undefined behaviour that ends the process
Crashed == [raised |-> "crash", val |-> 0, idx |-> 0]
\* the outcome of a throw of std::runtime_error
RuntimeError == [raised |-> "runtime_error", val |-> 0, idx |-> 0]
\* the outcome of a call that returns nothing
Returned == [raised |-> "none", val |-> 0, idx |-> 0]

\* a faulty search: the position of the last element equal to value
FindLast(c, first, value) ==
    LET found == {k \in first .. size(c) - 1 : At(c, k) = value}
    IN  IF found = {}
        THEN size(c)
        ELSE CHOOSE k \in found : \A j \in found : j <= k

\* std::find(elements.begin() + first, elements.end(), value): the position
\* of the first element from first on that equals value, size() for end()
RECURSIVE Find(_, _, _)
Find(c, first, value) ==
    IF first >= size(c) THEN size(c)
    ELSE IF At(c, first) = value THEN first
    ELSE Find(c, first + 1, value)

\* elements.erase(it), it at position pos: the later elements move down
Erase(c, pos) ==
    [k \in 1 .. Len(c) - 1 |-> IF k - 1 < pos THEN c[k] ELSE c[k + 1]]

\* a faulty remove: returns without a throw when the value is not found
removeQuiet(c, value) ==
    LET pos == Find(c, 0, value)
    IN  IF pos = size(c)
        THEN [elements |-> c, outcome |-> Returned]
        ELSE [elements |-> Erase(c, pos), outcome |-> Returned]

\* a faulty remove: when the value is not found the last element is erased
\* ahead of the throw ("elements.erase(it - 1)")
removeLastThenThrow(c, value) ==
    LET pos == Find(c, 0, value)
    IN  IF pos = size(c)
        THEN [elements |-> IF size(c) = 0 THEN c ELSE Erase(c, size(c) - 1),
              outcome |-> RuntimeError]
        ELSE [elements |-> Erase(c, pos), outcome |-> Returned]

\* MyContainer::remove: the elements after the call and its outcome
remove(c, value) ==
    LET pos == Find(c, 0, value)
    IN  IF pos = size(c)
        THEN [elements |-> c, outcome |-> RuntimeError]
        ELSE [elements |-> Erase(c, pos), outcome |-> Returned]

\* MyContainer::operator[] const: the element, or std::out_of_range
ContainerAt(c, index) ==
    IF index >= size(c)
    THEN OutOfRange
    ELSE [raised |-> "none", val |-> At(c, index), idx |-> index]

\* a faulty operator[]: "index > elements.size()", so that index size()
\* is let through and reads past the vector
ContainerRefPast(c, index) ==
    IF index > size(c)
    THEN OutOfRange
    ELSE IF index = size(c)
         THEN Crashed
         ELSE [raised |-> "none", val |-> At(c, index), idx |-> index]

\* MyContainer::operator[] (not const): the element, or std::out_of_range
ContainerRef(c, index) ==
    IF index >= size(c)
    THEN OutOfRange
    ELSE [raised |-> "none", val |-> At(c, index), idx |-> index]

\* the characters of the decimal digits
DigitChars == <<"0", "1", "2", "3", "4", "5", "6", "7", "8", "9">>

\* os << x for an int x >= 0: its decimal digits, most significant first
RECURSIVE IntText(_)
IntText(x) ==
    IF x < 10
    THEN <<DigitChars[x + 1]>>
    ELSE IntText(x \div 10) \o <<DigitChars[(x % 10) + 1]>>

\* a faulty loop of operator<<: a comma after every element
RECURSIVE OutputLoopTrailing(_, _, _)
OutputLoopTrailing(c, os, i) ==
    IF i < size(c)
    THEN OutputLoopTrailing(c, os \o IntText(ContainerAt(c, i).val) \o <<",">>,
                            SizeAdd(i, 1))
    ELSE os

\* the loop of operator<<, from one test of its condition on: os is the
\* stream so far, a sequence of characters
RECURSIVE OutputLoop(_, _, _)
OutputLoop(c, os, i) ==
    IF i < size(c)
    THEN LET written == os \o IntText(ContainerAt(c, i).val)
         IN  OutputLoop(c,
                        IF i < SizeSub(size(c), 1)
                        THEN written \o <<",">>
                        ELSE written,
                        SizeAdd(i, 1))
    ELSE os

\* operator<<(std::ostream&, const MyContainer&) on the stream os
Output(os, c) == OutputLoop(c, os \o <<"[">>, 0) \o <<"]">>

\* container[v[current]] where v[current] reads a std::vector<size_t>:
\* inside the vector the stored index is used; past its end the read is
\* undefined and may yield any index or end the process.
ContainerAtIndex(c, v, current) ==
    IF current < Len(v)
    THEN {ContainerAt(c, At(v, current))}
    ELSE {ContainerAt(c, j) : j \in 0 .. size(c)} \cup {Crashed}

----------------------------------------------------------------------------
(* std::sort                                                               *)

\* the orders std::sort may leave the distinct items of the set S in, where
\* comp is the comparator as the set of the pairs <<x, y>> it holds of: the
\* first item is one that no other item is comp-before, and the rest is
\* such an order of the other items
RECURSIVE SortedOrders(_, _)
SortedOrders(S, comp) ==
    IF S = {}
    THEN {<<>>}
    ELSE UNION {{<<x>> \o rest : rest \in SortedOrders(S \ {x}, comp)} :
                   x \in {y \in S : \A z \in S : <<z, y>> \notin comp}}

\* the items of the vector v
Items(v) == {v[k] : k \in 1 .. Len(v)}

\* std::sort(first, last, comp) on a vector v of distinct items: the result
\* is a rearrangement of v in which no item is comp-before an item placed
\* ahead of it; the order of equivalent items is unspecified
StdSort(v, comp) == SortedOrders(Items(v), comp)

\* a faulty comparison of the pairs: the values alone are compared
PairLessFirst(p, q) == p[1] < q[1]

\* operator< of std::pair<T, size_t>: lexicographic on (first, second)
PairLess(p, q) == p[1] < q[1] \/ (p[1] = q[1] /\ p[2] < q[2])

----------------------------------------------------------------------------
(* The iterator objects.  Every class has the fields container, current    *)
(* and is_end; the four classes with an index vector call it               *)
(* sorted_indices or indices, here the field indices (empty for Order and  *)
(* ReverseOrder).  There is one container, so the container pointer is     *)
(* the parameter c of the operators.                                       *)

NoIter == [kind |-> "none", indices |-> <<>>, current |-> 0, is_end |-> TRUE]

Iter(kind, indices, current, is_end) ==
    [kind |-> kind, indices |-> indices, current |-> current, is_end |-> is_end]

\* an iterator without its index vector: the fields operator== reads
Cursor(i) == [i EXCEPT !.indices = <<>>]

----------------------------------------------------------------------------
(* class Order                                                             *)

\* a faulty Order::Order: the empty container is not tested for
OrderNoEmptyTest(c, end) ==
    {Iter("Order", <<>>, IF end THEN size(c) ELSE 0, end)}

\* Order::Order(c, end)
Order(c, end) ==
    {Iter("Order", <<>>,
          IF end \/ size(c) = 0 THEN size(c) ELSE 0,
          end \/ size(c) = 0)}

\* Order::operator==
OrderEq(a, b) ==
    IF a.is_end /\ b.is_end THEN TRUE
    ELSE IF a.is_end \/ b.is_end THEN FALSE
    ELSE a.current = b.current

\* Order::operator*
OrderDeref(i, c) ==
    IF i.is_end \/ i.current >= size(c)
    THEN {OutOfRange}
    ELSE {ContainerAt(c, i.current)}

\* a faulty Order::operator++: the cursor stops at size() but is_end is
\* never set
OrderIncNoEndFlag(i, c) ==
    IF i.current < size(c)
    THEN [i EXCEPT !.current = SizeAdd(i.current, 1)]
    ELSE i

\* Order::operator++ (pre-increment)
OrderInc(i, c) ==
    IF ~i.is_end
    THEN LET cur == SizeAdd(i.current, 1)
         IN  IF cur >= size(c)
             THEN [i EXCEPT !.is_end = TRUE, !.current = size(c)]
             ELSE [i EXCEPT !.current = cur]
    ELSE i

\* Order(const Order& other) = default: every field is copied
OrderCopy(other) == other

\* Order::operator=, the iterator self after "self = other": the
\* fields container, current and is_end are assigned
OrderAssign(self, other) ==
    [self EXCEPT !.current = other.current, !.is_end = other.is_end]

\* a faulty Order::begin: "return *this", the handle as it stands
OrderBeginSelf(i, c) == {i}

\* Order::begin
OrderBegin(i, c) == Order(c, FALSE)

\* Order::end
OrderEnd(i, c) == Order(c, TRUE)

----------------------------------------------------------------------------
(* class ReverseOrder                                                      *)

\* ReverseOrder::ReverseOrder(c, end)
ReverseOrder(c, end) ==
    {Iter("ReverseOrder", <<>>,
          IF end \/ size(c) = 0 THEN 0 ELSE SizeSub(size(c), 1),
          end \/ size(c) = 0)}

\* a faulty ReverseOrder::operator==, the one of include/MyContainer.hpp:
\* the cursors alone are compared
ReverseOrderEqCursor(a, b) == a.current = b.current

\* ReverseOrder::operator==
ReverseOrderEq(a, b) ==
    IF a.is_end /\ b.is_end THEN TRUE
    ELSE IF a.is_end \/ b.is_end THEN FALSE
    ELSE a.current = b.current

\* ReverseOrder::operator*
ReverseOrderDeref(i, c) ==
    IF i.is_end \/ i.current >= size(c)
    THEN {OutOfRange}
    ELSE {ContainerAt(c, i.current)}

\* a faulty ReverseOrder::operator++: exhausted one step early, at 1
ReverseOrderIncEarly(i, c) ==
    IF ~i.is_end
    THEN IF i.current > 1
         THEN [i EXCEPT !.current = SizeSub(i.current, 1)]
         ELSE [i EXCEPT !.is_end = TRUE, !.current = 0]
    ELSE i

\* a faulty ReverseOrder::operator++: "if (current >= 0) --current", a
\* test that always holds on a size_t, so that the cursor wraps below zero
ReverseOrderIncWrapping(i, c) ==
    IF ~i.is_end
    THEN IF i.current >= 0
         THEN [i EXCEPT !.current = SizeSub(i.current, 1)]
         ELSE [i EXCEPT !.is_end = TRUE, !.current = 0]
    ELSE i

\* ReverseOrder::operator++ (pre-increment, moves backwards)
ReverseOrderInc(i, c) ==
    IF ~i.is_end
    THEN IF i.current > 0
         THEN [i EXCEPT !.current = SizeSub(i.current, 1)]
         ELSE [i EXCEPT !.is_end = TRUE, !.current = 0]
    ELSE i

\* a faulty copy constructor of ReverseOrder: is_end is not copied
ReverseOrderCopyNoFlag(other) == [other EXCEPT !.is_end = FALSE]

\* ReverseOrder(const ReverseOrder& other) = default: every field is copied
ReverseOrderCopy(other) == other

\* ReverseOrder::operator=, the iterator self after "self = other": the
\* fields container, current and is_end are assigned
ReverseOrderAssign(self, other) ==
    [self EXCEPT !.current = other.current, !.is_end = other.is_end]

\* ReverseOrder::begin
ReverseOrderBegin(i, c) == ReverseOrder(c, FALSE)

\* ReverseOrder::end
ReverseOrderEnd(i, c) == ReverseOrder(c, TRUE)

----------------------------------------------------------------------------
(* class AscendingOrder                                                    *)

\* a faulty comparator for AscendingOrder: the comparison turned round
AscendingCompTurned(c, i1, i2) == At(c, i1) > At(c, i2)

\* a faulty comparator for AscendingOrder: values one apart count as equal
AscendingCompCoarse(c, i1, i2) == At(c, i1) + 1 < At(c, i2)

\* the lambda of AscendingOrder's std::sort: c[i1] < c[i2] on the elements
AscendingComp(c, i1, i2) == At(c, i1) < At(c, i2)

\* AscendingOrder::AscendingOrder(c, end): sorted_indices is 0..n-1 sorted
\* by std::sort under the value-only comparator, also for an end iterator
AscendingOrder(c, end) ==
    {Iter("AscendingOrder", sorted_indices,
          IF end \/ size(c) = 0 THEN size(c) ELSE 0,
          end \/ size(c) = 0) :
        sorted_indices \in
            StdSort(Iota(size(c)),
                    {p \in Items(Iota(size(c))) \X Items(Iota(size(c))) :
                        AscendingComp(c, p[1], p[2])})}

\* AscendingOrder::operator==
AscendingOrderEq(a, b) ==
    IF a.is_end /\ b.is_end THEN TRUE
    ELSE IF a.is_end \/ b.is_end THEN FALSE
    ELSE a.current = b.current

\* AscendingOrder::operator*: tests current only, not is_end
AscendingOrderDeref(i, c) ==
    IF i.current >= size(c)
    THEN {OutOfRange}
    ELSE ContainerAtIndex(c, i.indices, i.current)

\* a faulty AscendingOrder::operator++: no test of is_end, and is_end is set
\* again from the cursor on every call
AscendingOrderIncRecount(i, c) ==
    LET cur == SizeAdd(i.current, 1)
    IN  [i EXCEPT !.current = cur, !.is_end = (cur = size(c))]

\* a faulty AscendingOrder::operator++: sorted_indices is built again from
\* the container on every call
AscendingOrderIncRefresh(i, c) ==
    LET cur == SizeAdd(i.current, 1)
        now == (CHOOSE h \in AscendingOrder(c, FALSE) : TRUE).indices
    IN  IF i.is_end
        THEN i
        ELSE IF cur >= size(c)
             THEN [i EXCEPT !.is_end = TRUE, !.current = size(c),
                            !.indices = now]
             ELSE [i EXCEPT !.current = cur, !.indices = now]

\* AscendingOrder::operator++ (pre-increment)
AscendingOrderInc(i, c) ==
    IF ~i.is_end
    THEN LET cur == SizeAdd(i.current, 1)
         IN  IF cur >= size(c)
             THEN [i EXCEPT !.is_end = TRUE, !.current = size(c)]
             ELSE [i EXCEPT !.current = cur]
    ELSE i

\* AscendingOrder(const AscendingOrder& other) = default: every field is copied
AscendingOrderCopy(other) == other

\* AscendingOrder::operator=, the iterator self after "self = other": the
\* fields container, current, is_end and sorted_indices are assigned
AscendingOrderAssign(self, other) ==
    [self EXCEPT !.current = other.current, !.is_end = other.is_end,
                 !.indices = other.indices]

\* AscendingOrder::begin
AscendingOrderBegin(i, c) == AscendingOrder(c, FALSE)

\* AscendingOrder::end
AscendingOrderEnd(i, c) == AscendingOrder(c, TRUE)

----------------------------------------------------------------------------
(* class DescendingOrder                                                   *)

\* a faulty comparator for DescendingOrder: the comparison turned round
DescendingCompTurned(c, i1, i2) == At(c, i1) < At(c, i2)

\* the lambda of DescendingOrder's std::sort: c[i1] > c[i2] on the elements
DescendingComp(c, i1, i2) == At(c, i1) > At(c, i2)

\* DescendingOrder::DescendingOrder(c, end): returns before the sort only
\* when the container is empty
DescendingOrder(c, end) ==
    IF size(c) = 0
    THEN {Iter("DescendingOrder", <<>>, size(c), TRUE)}
    ELSE {Iter("DescendingOrder", sorted_indices,
               IF end THEN size(c) ELSE 0, end) :
             sorted_indices \in
                 StdSort(Iota(size(c)),
                         {p \in Items(Iota(size(c))) \X Items(Iota(size(c))) :
                             DescendingComp(c, p[1], p[2])})}

\* DescendingOrder::operator==
DescendingOrderEq(a, b) ==
    IF a.is_end /\ b.is_end THEN TRUE
    ELSE IF a.is_end \/ b.is_end THEN FALSE
    ELSE a.current = b.current

\* DescendingOrder::operator*
DescendingOrderDeref(i, c) ==
    IF i.is_end \/ i.current >= size(c)
    THEN {OutOfRange}
    ELSE ContainerAtIndex(c, i.indices, i.current)

\* DescendingOrder::operator++ (pre-increment)
DescendingOrderInc(i, c) ==
    IF ~i.is_end
    THEN LET cur == SizeAdd(i.current, 1)
         IN  IF cur >= size(c)
             THEN [i EXCEPT !.is_end = TRUE, !.current = size(c)]
             ELSE [i EXCEPT !.current = cur]
    ELSE i

\* DescendingOrder(const DescendingOrder& other) = default: every field is copied
DescendingOrderCopy(other) == other

\* DescendingOrder::operator=, the iterator self after "self = other": the
\* fields container, current, is_end and sorted_indices are assigned
DescendingOrderAssign(self, other) ==
    [self EXCEPT !.current = other.current, !.is_end = other.is_end,
                 !.indices = other.indices]

\* DescendingOrder::begin
DescendingOrderBegin(i, c) == DescendingOrder(c, FALSE)

\* DescendingOrder::end
DescendingOrderEnd(i, c) == DescendingOrder(c, TRUE)

----------------------------------------------------------------------------
(* class SideCrossOrder                                                    *)

\* the vector "sorted" of the constructor: the pairs {c[i], i} in push
\* order, then std::sort under std::pair's operator<
SideCrossSorted(c) ==
    LET pushed == [k \in 1 .. size(c) |-> <<At(c, k - 1), k - 1>>]
    IN  StdSort(pushed,
                {p \in Items(pushed) \X Items(pushed) : PairLess(p[1], p[2])})

\* a faulty interleave loop: the largest is taken before the smallest
RECURSIVE SideCrossLoopRightFirst(_, _, _, _, _)
SideCrossLoopRightFirst(sorted, indices, idx, left, right) ==
    IF left <= right
    THEN IF left = right
         THEN Store(indices, idx, At(sorted, left)[2])
         ELSE SideCrossLoopRightFirst(
                  sorted,
                  Store(Store(indices, idx, At(sorted, right)[2]),
                        SizeAdd(idx, 1), At(sorted, left)[2]),
                  SizeAdd(idx, 2), SizeAdd(left, 1), SizeSub(right, 1))
    ELSE indices

\* a faulty interleave loop: "while (left < right)", so that the element
\* where left and right meet is never stored
RECURSIVE SideCrossLoopNoMiddle(_, _, _, _, _)
SideCrossLoopNoMiddle(sorted, indices, idx, left, right) ==
    IF left < right
    THEN SideCrossLoopNoMiddle(
             sorted,
             Store(Store(indices, idx, At(sorted, left)[2]),
                   SizeAdd(idx, 1), At(sorted, right)[2]),
             SizeAdd(idx, 2), SizeAdd(left, 1), SizeSub(right, 1))
    ELSE indices

\* a faulty interleave loop: "indices[idx] = ...; indices[idx++] = ...",
\* so that the two stores of a pass go to one slot
RECURSIVE SideCrossLoopOneSlot(_, _, _, _, _)
SideCrossLoopOneSlot(sorted, indices, idx, left, right) ==
    IF left <= right
    THEN IF left = right
         THEN Store(indices, idx, At(sorted, left)[2])
         ELSE SideCrossLoopOneSlot(
                  sorted,
                  Store(Store(indices, idx, At(sorted, left)[2]),
                        idx, At(sorted, right)[2]),
                  SizeAdd(idx, 1), SizeAdd(left, 1), SizeSub(right, 1))
    ELSE indices

\* the loop "while (left <= right)" of the constructor, from one test of
\* its condition on; sorted[x].second is At(sorted, x)[2]
RECURSIVE SideCrossLoop(_, _, _, _, _)
SideCrossLoop(sorted, indices, idx, left, right) ==
    IF left <= right
    THEN IF left = right
         THEN Store(indices, idx, At(sorted, left)[2])
         ELSE SideCrossLoop(
                  sorted,
                  Store(Store(indices, idx, At(sorted, left)[2]),
                        SizeAdd(idx, 1), At(sorted, right)[2]),
                  SizeAdd(idx, 2), SizeAdd(left, 1), SizeSub(right, 1))
    ELSE indices

\* the same loop, followed for idx, left and right alone: where it leaves
\* them, whether it went through the branch "left == right" (met), and the
\* slots of indices it wrote to, in the order of the writes
RECURSIVE SideCrossLoopTrace(_, _, _, _)
SideCrossLoopTrace(idx, left, right, slots) ==
    IF left <= right
    THEN IF left = right
         THEN [idx |-> idx, left |-> left, right |-> right, met |-> TRUE,
               slots |-> Append(slots, idx)]
         ELSE SideCrossLoopTrace(SizeAdd(idx, 2), SizeAdd(left, 1),
                                 SizeSub(right, 1),
                                 slots \o <<idx, SizeAdd(idx, 1)>>)
    ELSE [idx |-> idx, left |-> left, right |-> right, met |-> FALSE,
          slots |-> slots]

\* SideCrossOrder::SideCrossOrder(c, end)
SideCrossOrder(c, end) ==
    IF size(c) = 0 \/ end
    THEN {Iter("SideCrossOrder", <<>>, 0, TRUE)}
    ELSE {Iter("SideCrossOrder",
               SideCrossLoop(sorted, Resized(size(c)), 0, 0,
                             SizeSub(Len(sorted), 1)),
               0, end) :
             sorted \in SideCrossSorted(c)}

\* a faulty SideCrossOrder::operator==: equal fields, so that an iterator
\* advanced to the end differs from end(), whose cursor is 0
SideCrossOrderEqFields(a, b) ==
    a.current = b.current /\ a.is_end = b.is_end

\* SideCrossOrder::operator==
SideCrossOrderEq(a, b) ==
    IF a.is_end /\ b.is_end THEN TRUE
    ELSE IF a.is_end \/ b.is_end THEN FALSE
    ELSE a.current = b.current

\* a faulty SideCrossOrder::operator*: is_end is not tested, as in
\* AscendingOrder::operator*
SideCrossOrderDerefNoEndTest(i, c) ==
    IF i.current >= size(c)
    THEN {OutOfRange}
    ELSE ContainerAtIndex(c, i.indices, i.current)

\* SideCrossOrder::operator*
SideCrossOrderDeref(i, c) ==
    IF i.is_end \/ i.current >= size(c)
    THEN {OutOfRange}
    ELSE ContainerAtIndex(c, i.indices, i.current)

\* a faulty SideCrossOrder::operator++: "current > indices.size()"
SideCrossOrderIncPast(i, c) ==
    IF ~i.is_end
    THEN LET cur == SizeAdd(i.current, 1)
         IN  IF cur > Len(i.indices)
             THEN [i EXCEPT !.is_end = TRUE, !.current = Len(i.indices)]
             ELSE [i EXCEPT !.current = cur]
    ELSE i

\* a faulty SideCrossOrder::operator++: bounded by container->size(), as
\* in AscendingOrder::operator++
SideCrossOrderIncBySize(i, c) ==
    IF ~i.is_end
    THEN LET cur == SizeAdd(i.current, 1)
         IN  IF cur >= size(c)
             THEN [i EXCEPT !.is_end = TRUE, !.current = size(c)]
             ELSE [i EXCEPT !.current = cur]
    ELSE i

\* SideCrossOrder::operator++ (pre-increment): bounded by indices.size()
SideCrossOrderInc(i, c) ==
    IF ~i.is_end
    THEN LET cur == SizeAdd(i.current, 1)
         IN  IF cur >= Len(i.indices)
             THEN [i EXCEPT !.is_end = TRUE, !.current = Len(i.indices)]
             ELSE [i EXCEPT !.current = cur]
    ELSE i

\* SideCrossOrder(const SideCrossOrder& other) = default: every field is copied
SideCrossOrderCopy(other) == other

\* SideCrossOrder::operator=, the iterator self after "self = other": the
\* fields container, current, is_end and indices are assigned
SideCrossOrderAssign(self, other) ==
    [self EXCEPT !.current = other.current, !.is_end = other.is_end,
                 !.indices = other.indices]

\* SideCrossOrder::begin
SideCrossOrderBegin(i, c) == SideCrossOrder(c, FALSE)

\* SideCrossOrder::end
SideCrossOrderEnd(i, c) == SideCrossOrder(c, TRUE)

----------------------------------------------------------------------------
(* class MiddleOutOrder                                                    *)

\* a faulty loop of the even branch: the left position is mid - i, as in
\* the odd branch
RECURSIVE MiddleOutEvenLoopOddLeft(_, _, _, _)
MiddleOutEvenLoopOddLeft(n, mid, st, i) ==
    IF st[2] < n
    THEN LET lft    == SizeSub(mid, i)
             afterL == IF lft >= 0 /\ st[2] < n
                       THEN <<Store(st[1], st[2], lft), SizeAdd(st[2], 1)>>
                       ELSE st
             rgt    == SizeAdd(mid, i)
             afterR == IF rgt < n /\ afterL[2] < n
                       THEN <<Store(afterL[1], afterL[2], rgt),
                              SizeAdd(afterL[2], 1)>>
                       ELSE afterL
         IN  MiddleOutEvenLoopOddLeft(n, mid, afterR, SizeAdd(i, 1))
    ELSE st[1]

\* the loop "for (size_t i = 1; index < c->size(); ++i)" of the even
\* branch, from one test of its condition on.  st is <<indices, index>>.
\* "mid - 1 - i >= 0" is a test on a size_t, so the subtraction wraps and
\* the comparison with 0 always holds.
RECURSIVE MiddleOutEvenLoop(_, _, _, _)
MiddleOutEvenLoop(n, mid, st, i) ==
    IF st[2] < n
    THEN LET lft    == SizeSub(SizeSub(mid, 1), i)
             afterL == IF lft >= 0 /\ st[2] < n
                       THEN <<Store(st[1], st[2], lft), SizeAdd(st[2], 1)>>
                       ELSE st
             rgt    == SizeAdd(mid, i)
             afterR == IF rgt < n /\ afterL[2] < n
                       THEN <<Store(afterL[1], afterL[2], rgt),
                              SizeAdd(afterL[2], 1)>>
                       ELSE afterL
         IN  MiddleOutEvenLoop(n, mid, afterR, SizeAdd(i, 1))
    ELSE st[1]

\* a faulty loop of the odd branch: the left position is mid - i - 1, which
\* wraps below zero in the last pass
RECURSIVE MiddleOutOddLoopWrapping(_, _, _, _)
MiddleOutOddLoopWrapping(n, mid, st, i) ==
    IF st[2] < n
    THEN LET lft    == SizeSub(SizeSub(mid, i), 1)
             afterL == IF lft >= 0 /\ st[2] < n
                       THEN <<Store(st[1], st[2], lft), SizeAdd(st[2], 1)>>
                       ELSE st
             rgt    == SizeAdd(mid, i)
             afterR == IF rgt < n /\ afterL[2] < n
                       THEN <<Store(afterL[1], afterL[2], rgt),
                              SizeAdd(afterL[2], 1)>>
                       ELSE afterL
         IN  MiddleOutOddLoopWrapping(n, mid, afterR, SizeAdd(i, 1))
    ELSE st[1]

\* the loop "for (size_t i = 1; index < c->size(); ++i)" of the odd branch
RECURSIVE MiddleOutOddLoop(_, _, _, _)
MiddleOutOddLoop(n, mid, st, i) ==
    IF st[2] < n
    THEN LET lft    == SizeSub(mid, i)
             afterL == IF lft >= 0 /\ st[2] < n
                       THEN <<Store(st[1], st[2], lft), SizeAdd(st[2], 1)>>
                       ELSE st
             rgt    == SizeAdd(mid, i)
             afterR == IF rgt < n /\ afterL[2] < n
                       THEN <<Store(afterL[1], afterL[2], rgt),
                              SizeAdd(afterL[2], 1)>>
                       ELSE afterL
         IN  MiddleOutOddLoop(n, mid, afterR, SizeAdd(i, 1))
    ELSE st[1]

\* a write through operator[] that leaves the vector alone when the
\* position is past its end
StoreInside(v, i, x) == IF i < Len(v) THEN Store(v, i, x) ELSE v

\* the loop of the faulty even branch below
RECURSIVE MiddleOutEvenPairsFirstLoop(_, _, _, _)
MiddleOutEvenPairsFirstLoop(n, mid, st, i) ==
    IF st[2] < n
    THEN LET lft    == SizeSub(SizeSub(mid, i), 1)
             afterL == IF lft < n
                       THEN <<StoreInside(st[1], st[2], lft),
                              SizeAdd(st[2], 1)>>
                       ELSE st
             rgt    == SizeAdd(mid, i)
             afterR == IF rgt < n /\ afterL[2] < n
                       THEN <<StoreInside(afterL[1], afterL[2], rgt),
                              SizeAdd(afterL[2], 1)>>
                       ELSE afterL
         IN  MiddleOutEvenPairsFirstLoop(n, mid, afterR, SizeAdd(i, 1))
    ELSE st[1]

\* a faulty even branch, the one of include/MyContainer.hpp: it stores
\* mid - 1, mid - 2, mid, mid + 1 and then loops from i = 2
MiddleOutEvenPairsFirst(n) ==
    LET mid == n \div 2
        i0  == StoreInside(Resized(n), 0, SizeSub(mid, 1))
        i1  == StoreInside(i0, 1, SizeSub(mid, 2))
        i2  == StoreInside(i1, 2, mid)
        i3  == StoreInside(i2, 3, SizeAdd(mid, 1))
    IN  MiddleOutEvenPairsFirstLoop(n, mid, <<i3, 4>>, 2)

\* the loop of the faulty odd branch below
RECURSIVE MiddleOutOddRightFirstLoop(_, _, _, _)
MiddleOutOddRightFirstLoop(n, mid, st, i) ==
    IF st[2] < n
    THEN LET rgt    == SizeAdd(mid, i)
             afterR == IF rgt < n /\ st[2] < n
                       THEN <<Store(st[1], st[2], rgt), SizeAdd(st[2], 1)>>
                       ELSE st
             lft    == SizeSub(mid, i)
             afterL == IF lft >= 0 /\ afterR[2] < n
                       THEN <<Store(afterR[1], afterR[2], lft),
                              SizeAdd(afterR[2], 1)>>
                       ELSE afterR
         IN  MiddleOutOddRightFirstLoop(n, mid, afterL, SizeAdd(i, 1))
    ELSE st[1]

\* a faulty odd branch: after mid, the right neighbour before the left one
MiddleOutOddRightFirst(n) ==
    LET mid == n \div 2
    IN  MiddleOutOddRightFirstLoop(n, mid, <<Store(Resized(n), 0, mid), 1>>, 1)

\* a faulty odd branch: the loop starts at i = 0, which stores mid again
MiddleOutOddFromZero(n) ==
    LET mid == n \div 2
    IN  MiddleOutOddLoop(n, mid, <<Store(Resized(n), 0, mid), 1>>, 0)

\* the branch "c->size() % 2 == 0" of the constructor: indices[0] = mid - 1,
\* indices[1] = mid, then the loop
MiddleOutEven(n) ==
    LET mid == n \div 2
    IN  MiddleOutEvenLoop(
            n, mid,
            <<Store(Store(Resized(n), 0, SizeSub(mid, 1)), 1, mid), 2>>, 1)

\* the else branch of the constructor: indices[0] = mid, then the loop
MiddleOutOdd(n) ==
    LET mid == n \div 2
    IN  MiddleOutOddLoop(n, mid, <<Store(Resized(n), 0, mid), 1>>, 1)

\* MiddleOutOrder::MiddleOutOrder(c, end): current is c->size() for an end
\* iterator and 0 otherwise, also over an empty container
MiddleOutOrder(c, end) ==
    IF size(c) = 0
    THEN {Iter("MiddleOutOrder", <<>>, IF end THEN size(c) ELSE 0, TRUE)}
    ELSE {Iter("MiddleOutOrder",
               IF size(c) % 2 = 0
               THEN MiddleOutEven(size(c))
               ELSE MiddleOutOdd(size(c)),
               IF end THEN size(c) ELSE 0,
               end)}

\* MiddleOutOrder::operator==
MiddleOutOrderEq(a, b) ==
    IF a.is_end /\ b.is_end THEN TRUE
    ELSE IF a.is_end \/ b.is_end THEN FALSE
    ELSE a.current = b.current

\* MiddleOutOrder::operator*
MiddleOutOrderDeref(i, c) ==
    IF i.is_end \/ i.current >= size(c)
    THEN {OutOfRange}
    ELSE ContainerAtIndex(c, i.indices, i.current)

\* MiddleOutOrder::operator++ (pre-increment): bounded by indices.size()
MiddleOutOrderInc(i, c) ==
    IF ~i.is_end
    THEN LET cur == SizeAdd(i.current, 1)
         IN  IF cur >= Len(i.indices)
             THEN [i EXCEPT !.is_end = TRUE, !.current = Len(i.indices)]
             ELSE [i EXCEPT !.current = cur]
    ELSE i

\* MiddleOutOrder(const MiddleOutOrder& other) = default: every field is copied
MiddleOutOrderCopy(other) == other

\* MiddleOutOrder::operator=, the iterator self after "self = other": the
\* fields container, current, is_end and indices are assigned
MiddleOutOrderAssign(self, other) ==
    [self EXCEPT !.current = other.current, !.is_end = other.is_end,
                 !.indices = other.indices]

\* MiddleOutOrder::begin
MiddleOutOrderBegin(i, c) == MiddleOutOrder(c, FALSE)

\* MiddleOutOrder::end
MiddleOutOrderEnd(i, c) == MiddleOutOrder(c, TRUE)

----------------------------------------------------------------------------
(* The factory methods of MyContainer                                      *)

\* MyContainer::order
order(c) == Order(c, FALSE)
\* MyContainer::reverse_order
reverse_order(c) == ReverseOrder(c, FALSE)
\* MyContainer::ascending_order
ascending_order(c) == AscendingOrder(c, FALSE)
\* MyContainer::descending_order
descending_order(c) == DescendingOrder(c, FALSE)
\* MyContainer::side_cross_order
side_cross_order(c) == SideCrossOrder(c, FALSE)
\* MyContainer::middle_out_order
middle_out_order(c) == MiddleOutOrder(c, FALSE)

----------------------------------------------------------------------------
(* The member a call resolves to, by the static type of the iterator       *)

Begin(i, c) ==
    CASE i.kind = "Order"           -> OrderBegin(i, c)
      [] i.kind = "ReverseOrder"    -> ReverseOrderBegin(i, c)
      [] i.kind = "AscendingOrder"  -> AscendingOrderBegin(i, c)
      [] i.kind = "DescendingOrder" -> DescendingOrderBegin(i, c)
      [] i.kind = "SideCrossOrder"  -> SideCrossOrderBegin(i, c)
      [] i.kind = "MiddleOutOrder"  -> MiddleOutOrderBegin(i, c)

End(i, c) ==
    CASE i.kind = "Order"           -> OrderEnd(i, c)
      [] i.kind = "ReverseOrder"    -> ReverseOrderEnd(i, c)
      [] i.kind = "AscendingOrder"  -> AscendingOrderEnd(i, c)
      [] i.kind = "DescendingOrder" -> DescendingOrderEnd(i, c)
      [] i.kind = "SideCrossOrder"  -> SideCrossOrderEnd(i, c)
      [] i.kind = "MiddleOutOrder"  -> MiddleOutOrderEnd(i, c)

Eq(a, b) ==
    CASE a.kind = "Order"           -> OrderEq(a, b)
      [] a.kind = "ReverseOrder"    -> ReverseOrderEq(a, b)
      [] a.kind = "AscendingOrder"  -> AscendingOrderEq(a, b)
      [] a.kind = "DescendingOrder" -> DescendingOrderEq(a, b)
      [] a.kind = "SideCrossOrder"  -> SideCrossOrderEq(a, b)
      [] a.kind = "MiddleOutOrder"  -> MiddleOutOrderEq(a, b)

\* operator!= of every class: the negation of operator==
Neq(a, b) == ~Eq(a, b)

\* operator= of the class of self
Assign(self, other) ==
    CASE self.kind = "Order"           -> OrderAssign(self, other)
      [] self.kind = "ReverseOrder"    -> ReverseOrderAssign(self, other)
      [] self.kind = "AscendingOrder"  -> AscendingOrderAssign(self, other)
      [] self.kind = "DescendingOrder" -> DescendingOrderAssign(self, other)
      [] self.kind = "SideCrossOrder"  -> SideCrossOrderAssign(self, other)
      [] self.kind = "MiddleOutOrder"  -> MiddleOutOrderAssign(self, other)

\* the copy constructor of the class of other
CopyOf(other) ==
    CASE other.kind = "Order"           -> OrderCopy(other)
      [] other.kind = "ReverseOrder"    -> ReverseOrderCopy(other)
      [] other.kind = "AscendingOrder"  -> AscendingOrderCopy(other)
      [] other.kind = "DescendingOrder" -> DescendingOrderCopy(other)
      [] other.kind = "SideCrossOrder"  -> SideCrossOrderCopy(other)
      [] other.kind = "MiddleOutOrder"  -> MiddleOutOrderCopy(other)

Deref(i, c) ==
    CASE i.kind = "Order"           -> OrderDeref(i, c)
      [] i.kind = "ReverseOrder"    -> ReverseOrderDeref(i, c)
      [] i.kind = "AscendingOrder"  -> AscendingOrderDeref(i, c)
      [] i.kind = "DescendingOrder" -> DescendingOrderDeref(i, c)
      [] i.kind = "SideCrossOrder"  -> SideCrossOrderDeref(i, c)
      [] i.kind = "MiddleOutOrder"  -> MiddleOutOrderDeref(i, c)

Inc(i, c) ==
    CASE i.kind = "Order"           -> OrderInc(i, c)
      [] i.kind = "ReverseOrder"    -> ReverseOrderInc(i, c)
      [] i.kind = "AscendingOrder"  -> AscendingOrderInc(i, c)
      [] i.kind = "DescendingOrder" -> DescendingOrderInc(i, c)
      [] i.kind = "SideCrossOrder"  -> SideCrossOrderInc(i, c)
      [] i.kind = "MiddleOutOrder"  -> MiddleOutOrderInc(i, c)

\* a faulty operator++(int): the iterator is returned as it is after the
\* increment
PostIncReturnsNew(i, c) == [self |-> Inc(i, c), ret |-> Inc(i, c)]

\* operator++(int) of every class: a copy of the iterator is taken,
\* operator++ runs on the iterator (self) and the copy is returned (ret)
PostIncOp(i, c) == [self |-> Inc(i, c), ret |-> CopyOf(i)]

----------------------------------------------------------------------------
(* The test "Iterator Order Verification": the values are added, one of    *)
(* the factories is called and the range-for                               *)
(*     for (const auto& val : it) { CHECK(val == expected[i++]); }         *)
(* runs: __begin = it.begin(), __end = it.end(), and while                 *)
(* __begin != __end the body receives *__begin and then ++__begin runs.    *)
(* The container is not touched while the loop runs.  Of __end the loop    *)
(* only calls operator!=, which reads current and is_end, so the variable  *)
(* end_it keeps __end without its index vector.                            *)

\* no call made yet
NoCall ==
    [op |-> "none", arg |-> 0, raised |-> "none", val |-> 0, idx |-> 0,
     eq |-> FALSE, ne |-> FALSE]

\* the call op(arg) with the outcome r; eq and ne are what operator== and
\* operator!= returned, FALSE for every other call
Called(op, arg, r, eq, ne) ==
    [op |-> op, arg |-> arg, raised |-> r.raised, val |-> r.val, idx |-> r.idx,
     eq |-> eq, ne |-> ne]

Init ==
    /\ elements = <<>>
    /\ values = <<>>
    /\ it = NoIter
    /\ end_it = NoIter
    /\ out = <<>>
    /\ reads = <<>>
    /\ pc = "build"
    /\ begin_it = NoIter
    /\ steps = 0
    /\ last = NoCall
    /\ before = <<>>
    /\ it2 = NoIter
    /\ text = <<>>
    /\ changes = 0

\* "for (int val : values) container.add(val)", one pass; the tests make
\* at most MaxSize calls of add
Add ==
    /\ pc = "build"
    /\ Len(values) < MaxSize
    /\ \E value \in Values :
          /\ elements' = add(elements, value)
          /\ values' = Append(values, value)
          /\ last' = Called("add", value, Returned, FALSE, FALSE)
    /\ before' = elements
    /\ UNCHANGED <<it, end_it, out, reads, pc, begin_it, steps>>
    /\ UNCHANGED <<it2, text, changes>>

\* "auto it = container.<factory>()": it is one of the iterators the
\* factory may return.  The test only calls begin() and end() on it, which
\* read its container pointer, so it is kept without its index vector.
Call(handles) ==
    /\ pc = "build"
    /\ it' \in {Cursor(h) : h \in handles}
    /\ pc' = "made"
    /\ UNCHANGED <<elements, values, end_it, out, reads>>
    /\ UNCHANGED <<begin_it, steps, last, before>>
    /\ UNCHANGED <<it2, text, changes>>

CallOrder == Call(order(elements))
CallReverseOrder == Call(reverse_order(elements))
CallAscendingOrder == Call(ascending_order(elements))
CallDescendingOrder == Call(descending_order(elements))
CallSideCrossOrder == Call(side_cross_order(elements))
CallMiddleOutOrder == Call(middle_out_order(elements))

\* the range-for starts: __begin = it.begin(), __end = it.end(); the test
\* does not use the factory's iterator again, and it becomes __begin
RangeFor ==
    /\ pc = "made"
    /\ end_it' \in {Cursor(e) : e \in End(it, elements)}
    /\ it' \in Begin(it, elements)
    /\ out' = <<>>
    /\ reads' = <<>>
    /\ pc' = "loop"
    /\ UNCHANGED <<elements, values, begin_it, steps, last, before>>
    /\ UNCHANGED <<it2, text, changes>>

\* one pass of the range-for: __begin != __end, val = *__begin, ++__begin;
\* an exception of operator* leaves the loop
LoopStep ==
    /\ pc = "loop"
    /\ ~Eq(it, end_it)
    /\ \E r \in Deref(it, elements) :
          IF r.raised = "none"
          THEN /\ out' = Append(out, r.val)
               /\ reads' = Append(reads, r.idx)
               /\ it' = Inc(it, elements)
               /\ pc' = "loop"
          ELSE /\ pc' = "raised"
               /\ UNCHANGED <<out, reads, it>>
    /\ UNCHANGED <<elements, values, end_it, begin_it, steps, last, before>>
    /\ UNCHANGED <<it2, text, changes>>

\* the range-for ends: __begin == __end
LoopExit ==
    /\ pc = "loop"
    /\ Eq(it, end_it)
    /\ pc' = "done"
    /\ UNCHANGED <<elements, values, it, end_it, out, reads>>
    /\ UNCHANGED <<begin_it, steps, last, before>>
    /\ UNCHANGED <<it2, text, changes>>

Next ==
    \/ Add
    \/ CallOrder
    \/ CallReverseOrder
    \/ CallAscendingOrder
    \/ CallDescendingOrder
    \/ CallSideCrossOrder
    \/ CallMiddleOutOrder
    \/ RangeFor
    \/ LoopStep
    \/ LoopExit

Spec == Init /\ [][Next]_vars

----------------------------------------------------------------------------
(* The tests "Iterator Comparison and End State", "Iterator Safety" and    *)
(* "Edge Cases": the values are added, then                                *)
(*     auto it = container.<factory>();                                    *)
(*     auto first = it.begin();  auto end = it.end();                      *)
(* and the test calls ++it, it++, *it, *end, it == end, it == first and    *)
(* first == end in any order.  CHECK_THROWS_AS catches what operator*      *)
(* throws, so the test goes on after it.  The container is not touched.    *)
(* first and end are only compared and dereferenced; they are kept         *)
(* without their index vectors, and *end is evaluated on an end iterator   *)
(* the constructor may have built.                                         *)

\* the add loop of these tests, on containers of at most MaxIterSize
AddFew ==
    /\ size(elements) < MaxIterSize
    /\ Add

\* the three declarations; handles is what the factory may return
Take(handles) ==
    /\ pc = "build"
    /\ \E kind \in {h.kind : h \in handles} :
          /\ begin_it' \in {Cursor(b) :
                               b \in Begin(Iter(kind, <<>>, 0, FALSE), elements)}
          /\ end_it' \in {Cursor(e) :
                             e \in End(Iter(kind, <<>>, 0, FALSE), elements)}
    /\ it' \in handles
    /\ steps' = 0
    /\ pc' = "free"
    /\ UNCHANGED <<elements, values, out, reads, last, before>>
    /\ UNCHANGED <<it2, text, changes>>

TakeOrder == Take(order(elements))
TakeReverseOrder == Take(reverse_order(elements))
\* a faulty ascending_order: the elements of the container are sorted in
\* place and the iterator walks them front to back
TakeAscendingOrderInPlace ==
    /\ pc = "build"
    /\ \E h \in ascending_order(elements) :
          /\ elements' = [k \in 1 .. size(elements) |->
                             At(elements, At(h.indices, k - 1))]
          /\ it' = [h EXCEPT !.indices = Iota(size(elements))]
          /\ begin_it' = Cursor(h)
    /\ end_it' \in {Cursor(e) :
                       e \in End(Iter("AscendingOrder", <<>>, 0, FALSE),
                                 elements)}
    /\ steps' = 0
    /\ pc' = "free"
    /\ UNCHANGED <<values, out, reads, last, before, it2, text, changes>>

TakeAscendingOrder == Take(ascending_order(elements))
TakeDescendingOrder == Take(descending_order(elements))
TakeSideCrossOrder == Take(side_cross_order(elements))
TakeMiddleOutOrder == Take(middle_out_order(elements))

\* "++it"; the tests advance at most MaxExtra times more than there are
\* elements
PreInc ==
    /\ pc = "free"
    /\ steps < size(elements) + MaxExtra
    /\ it' = Inc(it, elements)
    /\ steps' = steps + 1
    /\ last' = Called("pre_inc", 0, Returned, FALSE, FALSE)
    /\ UNCHANGED <<elements, values, end_it, out, reads, pc, begin_it, before>>
    /\ UNCHANGED <<it2, text, changes>>

\* "it++" of every class: a copy is taken, operator++ runs on the iterator
\* and the copy is returned.  The test
\* drops the iterator returned.
PostInc ==
    /\ pc = "free"
    /\ steps < size(elements) + MaxExtra
    /\ it' = PostIncOp(it, elements).self
    /\ steps' = steps + 1
    /\ last' = Called("post_inc", 0, Returned, FALSE, FALSE)
    /\ UNCHANGED <<elements, values, end_it, out, reads, pc, begin_it, before>>
    /\ UNCHANGED <<it2, text, changes>>

\* "*it", with or without CHECK_THROWS_AS around it
DerefIt ==
    /\ pc = "free"
    /\ \E r \in Deref(it, elements) :
          last' = Called("deref", 0, r, FALSE, FALSE)
    /\ UNCHANGED <<elements, values, it, end_it, out, reads, pc,
                   begin_it, steps, before>>
    /\ UNCHANGED <<it2, text, changes>>

\* "*end"
DerefEnd ==
    /\ pc = "free"
    /\ \E e \in End(it, elements) :
          /\ Cursor(e) = end_it
          /\ \E r \in Deref(e, elements) :
                last' = Called("deref_end", 0, r, FALSE, FALSE)
    /\ UNCHANGED <<elements, values, it, end_it, out, reads, pc,
                   begin_it, steps, before>>
    /\ UNCHANGED <<it2, text, changes>>

\* "it == end" and "it != end"
CompareEnd ==
    /\ pc = "free"
    /\ last' = Called("eq_end", 0, Returned, Eq(it, end_it), Neq(it, end_it))
    /\ UNCHANGED <<elements, values, it, end_it, out, reads, pc,
                   begin_it, steps, before>>
    /\ UNCHANGED <<it2, text, changes>>

\* "it == first" and "it != first"
CompareBegin ==
    /\ pc = "free"
    /\ last' = Called("eq_first", 0, Returned,
                      Eq(it, begin_it), Neq(it, begin_it))
    /\ UNCHANGED <<elements, values, it, end_it, out, reads, pc,
                   begin_it, steps, before>>
    /\ UNCHANGED <<it2, text, changes>>

\* "it.begin() == it.end()"
CompareEnds ==
    /\ pc = "free"
    /\ last' = Called("eq_ends", 0, Returned,
                      Eq(begin_it, end_it), Neq(begin_it, end_it))
    /\ UNCHANGED <<elements, values, it, end_it, out, reads, pc,
                   begin_it, steps, before>>
    /\ UNCHANGED <<it2, text, changes>>

IterNext ==
    \/ AddFew
    \/ TakeOrder
    \/ TakeReverseOrder
    \/ TakeAscendingOrder
    \/ TakeDescendingOrder
    \/ TakeSideCrossOrder
    \/ TakeMiddleOutOrder
    \/ PreInc
    \/ PostInc
    \/ DerefIt
    \/ DerefEnd
    \/ CompareEnd
    \/ CompareBegin
    \/ CompareEnds

IterSpec == Init /\ [][IterNext]_vars

----------------------------------------------------------------------------
(* The tests "Copy Constructor and Assignment", "Iterator Post-Increment"  *)
(* and "Multiple Iterators on Same Container": a second iterator it2 of    *)
(* the class of it, made by copy, by assignment, by post-increment or by   *)
(* the factory called again                                                *)

\* these tests build containers of at most MaxCopySize elements
AddShort ==
    /\ Len(values) < MaxCopySize
    /\ Add

\* the factory of the container c that made the iterator i
FactoryOf(i, c) ==
    CASE i.kind = "Order"           -> order(c)
      [] i.kind = "ReverseOrder"    -> reverse_order(c)
      [] i.kind = "AscendingOrder"  -> ascending_order(c)
      [] i.kind = "DescendingOrder" -> descending_order(c)
      [] i.kind = "SideCrossOrder"  -> side_cross_order(c)
      [] i.kind = "MiddleOutOrder"  -> middle_out_order(c)

\* "auto it2 = it" and "auto it2(it)"
Copy ==
    /\ pc = "free"
    /\ it2' = CopyOf(it)
    /\ last' = Called("copy", 0, Returned, FALSE, FALSE)
    /\ UNCHANGED <<elements, values, it, end_it, out, reads, pc,
                   begin_it, steps, before, text, changes>>

\* "it2 = it" on an iterator it2 made before
AssignIt ==
    /\ pc = "free"
    /\ it2.kind = it.kind
    /\ it2' = Assign(it2, it)
    /\ last' = Called("assign", 0, Returned, FALSE, FALSE)
    /\ UNCHANGED <<elements, values, it, end_it, out, reads, pc,
                   begin_it, steps, before, text, changes>>

\* "auto it2 = container.order()" and the like: the factory is called a
\* second time
TakeAgain ==
    /\ pc = "free"
    /\ it2' \in FactoryOf(it, elements)
    /\ last' = Called("take", 0, Returned, FALSE, FALSE)
    /\ UNCHANGED <<elements, values, it, end_it, out, reads, pc,
                   begin_it, steps, before, text, changes>>

\* "auto old = it++": it2 is the iterator returned
PostIncKeep ==
    /\ pc = "free"
    /\ steps < size(elements) + MaxExtra
    /\ LET r == PostIncOp(it, elements)
       IN  /\ it' = r.self
           /\ it2' = r.ret
    /\ steps' = steps + 1
    /\ last' = Called("post_inc", 0, Returned, FALSE, FALSE)
    /\ UNCHANGED <<elements, values, end_it, out, reads, pc, begin_it,
                   before, text, changes>>

\* "++it2"
PreIncCopy ==
    /\ pc = "free"
    /\ it2.kind = it.kind
    /\ steps < size(elements) + MaxExtra
    /\ it2' = Inc(it2, elements)
    /\ steps' = steps + 1
    /\ last' = Called("pre_inc2", 0, Returned, FALSE, FALSE)
    /\ UNCHANGED <<elements, values, it, end_it, out, reads, pc, begin_it,
                   before, text, changes>>

\* "*it2", with or without CHECK_THROWS_AS around it
DerefCopy ==
    /\ pc = "free"
    /\ it2.kind = it.kind
    /\ \E r \in Deref(it2, elements) :
          last' = Called("deref2", 0, r, FALSE, FALSE)
    /\ UNCHANGED <<elements, values, it, end_it, out, reads, pc,
                   begin_it, steps, before, it2, text, changes>>

\* "it == it2" and "it != it2"
CompareCopy ==
    /\ pc = "free"
    /\ it2.kind = it.kind
    /\ last' = Called("eq_copy", 0, Returned, Eq(it, it2), Neq(it, it2))
    /\ UNCHANGED <<elements, values, it, end_it, out, reads, pc,
                   begin_it, steps, before, it2, text, changes>>

CopyNext ==
    \/ AddShort
    \/ TakeOrder
    \/ TakeReverseOrder
    \/ TakeAscendingOrder
    \/ TakeDescendingOrder
    \/ TakeSideCrossOrder
    \/ TakeMiddleOutOrder
    \/ Copy
    \/ AssignIt
    \/ TakeAgain
    \/ PreInc
    \/ PreIncCopy
    \/ PostIncKeep
    \/ DerefIt
    \/ DerefCopy
    \/ CompareCopy

CopySpec == Init /\ [][CopyNext]_vars

----------------------------------------------------------------------------
(* A test that goes on calling add and remove on the container after it    *)
(* has made an iterator, and goes on using the iterator                    *)

\* "container.add(value)" with the iterator in hand
AddLater ==
    /\ pc = "free"
    /\ changes < MaxChanges
    /\ \E value \in Values :
          /\ elements' = add(elements, value)
          /\ values' = Append(values, value)
          /\ last' = Called("add", value, Returned, FALSE, FALSE)
    /\ before' = elements
    /\ changes' = changes + 1
    /\ UNCHANGED <<it, end_it, out, reads, pc, begin_it, steps, it2, text>>

\* "container.remove(value)" with the iterator in hand, with or without
\* CHECK_THROWS_AS around it
RemoveLater ==
    /\ pc = "free"
    /\ changes < MaxChanges
    /\ \E value \in Values :
          LET r == remove(elements, value)
          IN  /\ elements' = r.elements
              /\ last' = Called("remove", value, r.outcome, FALSE, FALSE)
    /\ before' = elements
    /\ changes' = changes + 1
    /\ UNCHANGED <<values, it, end_it, out, reads, pc, begin_it, steps,
                   it2, text>>

MutNext ==
    \/ AddShort
    \/ TakeOrder
    \/ TakeReverseOrder
    \/ TakeAscendingOrder
    \/ TakeDescendingOrder
    \/ TakeSideCrossOrder
    \/ TakeMiddleOutOrder
    \/ PreInc
    \/ DerefIt
    \/ AddLater
    \/ RemoveLater

MutSpec == Init /\ [][MutNext]_vars

----------------------------------------------------------------------------
(* The test "Basic Container Operations": add and remove in any order      *)

\* "container.remove(value)", with or without CHECK_THROWS_AS around it
Remove ==
    /\ pc = "build"
    /\ \E value \in Values :
          LET r == remove(elements, value)
          IN  /\ elements' = r.elements
              /\ last' = Called("remove", value, r.outcome, FALSE, FALSE)
    /\ before' = elements
    /\ UNCHANGED <<values, it, end_it, out, reads, pc, begin_it, steps>>
    /\ UNCHANGED <<it2, text, changes>>

\* "container.add(value)" of these tests, at most MaxAdds times
AddSome ==
    /\ Len(values) < MaxAdds
    /\ Add

\* the positions the tests hand to operator[]
Positions == 0 .. MaxAdds

\* "container[index]", with or without CHECK_THROWS_AS around it
Access ==
    /\ pc = "build"
    /\ \E index \in Positions :
          last' = Called("at", index, ContainerRef(elements, index),
                         FALSE, FALSE)
    /\ before' = elements
    /\ UNCHANGED <<elements, values, it, end_it, out, reads, pc, begin_it,
                   steps, it2, text, changes>>

\* "const_container[index]", const_container a const reference to container
AccessConst ==
    /\ pc = "build"
    /\ \E index \in Positions :
          last' = Called("at_const", index, ContainerAt(elements, index),
                         FALSE, FALSE)
    /\ before' = elements
    /\ UNCHANGED <<elements, values, it, end_it, out, reads, pc, begin_it,
                   steps, it2, text, changes>>

\* "std::stringstream ss; ss << container;", the last call of its test
StreamOut ==
    /\ pc = "build"
    /\ text' = Output(<<>>, elements)
    /\ last' = Called("print", 0, Returned, FALSE, FALSE)
    /\ before' = elements
    /\ pc' = "printed"
    /\ UNCHANGED <<elements, values, it, end_it, out, reads, begin_it,
                   steps, it2, changes>>

ContainerNext ==
    \/ AddSome
    \/ Remove
    \/ Access
    \/ AccessConst
    \/ StreamOut

ContainerSpec == Init /\ [][ContainerNext]_vars

----------------------------------------------------------------------------
(* Properties of the traversals                                            *)

\* the loop of the given iterator class has started
Traversing(kind) == it.kind = kind /\ pc \in {"loop", "done", "raised"}

\* how often x occurs in the sequence s
Count(s, x) == Cardinality({k \in 1 .. Len(s) : s[k] = x})

\* s and t hold the same values the same number of times
SameMultiset(s, t) ==
    /\ Len(s) = Len(t)
    /\ \A k \in 1 .. Len(s) : Count(s, s[k]) = Count(t, s[k])

\* C1: after add calls alone on an empty container, an Order traversal from
\* begin() to end() yields the added values in call order: the k-th value
\* received is the k-th value added, no dereference throws, and the loop
\* ends after exactly size() values.
C1_OrderYieldsCallOrder ==
    Traversing("Order") =>
        /\ pc # "raised"
        /\ Len(out) <= Len(values)
        /\ \A k \in 1 .. Len(out) : out[k] = values[k]
        /\ pc = "done" => Len(out) = Len(values) /\ Len(out) = size(elements)

C1_Witness ==
    /\ Traversing("Order")
    /\ pc = "done"
    /\ values = <<3, 1, 2>>
    /\ out = <<3, 1, 2>>

\* C2: after add calls alone on an empty container, a ReverseOrder
\* traversal yields the added values in reverse call order: the k-th value
\* received (k from 0) is the element at index size()-1-k, no dereference
\* throws, and the element at index 0 is the last one before the loop ends.
C2_ReverseOrderYieldsReverse ==
    Traversing("ReverseOrder") =>
        /\ pc # "raised"
        /\ Len(out) <= Len(values)
        /\ \A k \in 1 .. Len(out) :
              /\ out[k] = values[Len(values) + 1 - k]
              /\ reads[k] = size(elements) - k
        /\ pc = "done" =>
              /\ Len(out) = size(elements)
              /\ size(elements) > 0 => reads[Len(reads)] = 0

C2_Witness ==
    /\ Traversing("ReverseOrder")
    /\ pc = "done"
    /\ values = <<3, 1, 2>>
    /\ out = <<2, 1, 3>>
    /\ reads = <<2, 1, 0>>

\* C3: over a non-empty container that is not changed, the values of an
\* AscendingOrder traversal never decrease (and strictly increase when the
\* elements are pairwise distinct), no dereference throws, and the complete
\* traversal is a rearrangement of the elements: same multiset, same length.
C3_AscendingSortedPermutation ==
    (Traversing("AscendingOrder") /\ size(elements) >= 1) =>
        /\ pc # "raised"
        /\ \A k \in 1 .. Len(out) - 1 : out[k] <= out[k + 1]
        /\ (\A a, b \in 1 .. Len(elements) :
               a # b => elements[a] # elements[b])
              => \A k \in 1 .. Len(out) - 1 : out[k] < out[k + 1]
        /\ pc = "done" => SameMultiset(out, elements)

C3_Witness ==
    /\ Traversing("AscendingOrder")
    /\ pc = "done"
    /\ elements = <<3, 1, 2, 1>>
    /\ out = <<1, 1, 2, 3>>

\* C4: over a non-empty container that is not changed, the values of a
\* DescendingOrder traversal never increase, no dereference throws, and the
\* complete traversal is a rearrangement of the elements.
C4_DescendingSortedPermutation ==
    (Traversing("DescendingOrder") /\ size(elements) >= 1) =>
        /\ pc # "raised"
        /\ \A k \in 1 .. Len(out) - 1 : out[k] >= out[k + 1]
        /\ pc = "done" => SameMultiset(out, elements)

C4_Witness ==
    /\ Traversing("DescendingOrder")
    /\ pc = "done"
    /\ elements = <<3, 1, 2, 1>>
    /\ out = <<3, 2, 1, 1>>

\* the position in the index vector v at which the element position x stands
PosIn(v, x) == CHOOSE k \in 1 .. Len(v) : v[k] = x

\* C5: AscendingOrder is stable: for all positions i < j of the container
\* that hold equal values, the index vector built by the constructor places
\* i before j, whatever std::sort does with equal keys.
C5_AscendingStable ==
    Traversing("AscendingOrder") =>
        \A i, j \in 0 .. size(elements) - 1 :
            (i < j /\ At(elements, i) = At(elements, j))
                => PosIn(it.indices, i) < PosIn(it.indices, j)

\* C6: DescendingOrder is stable: for all positions i < j of the container
\* that hold equal values, the index vector built by the constructor places
\* i before j.
C6_DescendingStable ==
    Traversing("DescendingOrder") =>
        \A i, j \in 0 .. size(elements) - 1 :
            (i < j /\ At(elements, i) = At(elements, j))
                => PosIn(it.indices, i) < PosIn(it.indices, j)

\* the value of rank k (from 0) among the elements of c in ascending order:
\* fewer than k + 1 elements are below it and more than k are at most it
SortedValue(c, k) ==
    CHOOSE v \in {c[a] : a \in 1 .. Len(c)} :
        /\ Cardinality({a \in 1 .. Len(c) : c[a] < v}) <= k
        /\ Cardinality({a \in 1 .. Len(c) : c[a] <= v}) > k

\* C7: over a container of n >= 1 elements that is not changed, with the
\* values in ascending order s[0] <= ... <= s[n-1], a SideCrossOrder
\* traversal yields s[k] at output position 2k and s[n-1-k] at output
\* position 2k+1 for every output position below n, no dereference throws,
\* and the loop ends after n values.
C7_SideCrossInterleaves ==
    (Traversing("SideCrossOrder") /\ size(elements) >= 1) =>
        /\ pc # "raised"
        /\ Len(out) <= size(elements)
        /\ \A p \in 0 .. Len(out) - 1 :
              out[p + 1] =
                  IF p % 2 = 0
                  THEN SortedValue(elements, p \div 2)
                  ELSE SortedValue(elements, size(elements) - 1 - (p \div 2))
        /\ pc = "done" => Len(out) = size(elements)

C7_Witness ==
    /\ Traversing("SideCrossOrder")
    /\ pc = "done"
    /\ elements = <<3, 1, 3, 2>>
    /\ out = <<1, 3, 2, 3>>

\* the position of the element of rank (n-1)/2 of c, the elements ordered
\* by value and, among equal values, by position
MiddleIndex(c) ==
    CHOOSE j \in 0 .. Len(c) - 1 :
        Cardinality({i \in 0 .. Len(c) - 1 :
                        \/ At(c, i) < At(c, j)
                        \/ (At(c, i) = At(c, j) /\ i < j)})
            = (Len(c) - 1) \div 2

\* C8: over a container of odd size n that is not changed, a SideCrossOrder
\* traversal reads the middle element of the sorted sequence (rank (n-1)/2)
\* exactly once, as the last of exactly n elements, and is then exhausted.
C8_SideCrossOddMiddleLast ==
    (Traversing("SideCrossOrder") /\ size(elements) % 2 = 1) =>
        LET n == size(elements)
            m == MiddleIndex(elements)
        IN  /\ pc # "raised"
            /\ Count(reads, m) <= 1
            /\ \A k \in 1 .. Len(reads) : reads[k] = m => k = n
            /\ Len(reads) = n => it.is_end
            /\ pc = "done" =>
                  /\ Len(reads) = n
                  /\ Len(out) = n
                  /\ reads[n] = m
                  /\ out[n] = SortedValue(elements, (n - 1) \div 2)
                  /\ it.is_end

C8_Witness ==
    /\ Traversing("SideCrossOrder")
    /\ pc = "done"
    /\ elements = <<2, 3, 1, 2, 2>>
    /\ reads = <<2, 1, 0, 4, 3>>

C10_MiddleOutOdd ==
    (Traversing("MiddleOutOrder") /\ size(elements) % 2 = 1) =>
        LET n   == size(elements)
            mid == n \div 2
        IN  /\ pc # "raised"
            /\ Len(reads) <= n
            /\ \A p \in 0 .. Len(reads) - 1 :
                  /\ reads[p + 1] = IF p % 2 = 1
                                    THEN mid - ((p + 1) \div 2)
                                    ELSE mid + (p \div 2)
                  /\ out[p + 1] = At(elements, reads[p + 1])
            /\ pc = "done" => Len(reads) = n

C10_Witness ==
    /\ Traversing("MiddleOutOrder")
    /\ pc = "done"
    /\ elements = <<3, 1, 3, 2, 2>>
    /\ reads = <<2, 1, 3, 0, 4>>
    /\ out = <<3, 1, 2, 3, 2>>

\* v holds each of the positions 0 .. n-1 exactly once and nothing else
IsPermutation(v, n) ==
    /\ Len(v) = n
    /\ \A x \in 0 .. n - 1 : Count(v, x) = 1

\* C11: for every container size n >= 1 the index vector that the
\* MiddleOutOrder constructor builds, for a begin and for an end iterator,
\* has length n and holds every position 0 .. n-1 exactly once.
C11_MiddleOutPermutation ==
    (Traversing("MiddleOutOrder") /\ size(elements) >= 1) =>
        /\ IsPermutation(it.indices, size(elements))
        /\ \A e \in MiddleOutOrder(elements, TRUE) :
              IsPermutation(e.indices, size(elements))

C11_Witness ==
    /\ Traversing("MiddleOutOrder")
    /\ size(elements) = 5
    /\ it.indices = <<2, 1, 3, 0, 4>>

\* C12: for each of the six iterator classes, over a container that is not
\* changed, no dereference of the loop from begin() to end() throws, no
\* value is received more often than the container holds it, and the values
\* of the complete traversal are the elements as a multiset.
C12_TraversalKeepsMultiset ==
    pc \in {"loop", "done", "raised"} =>
        /\ pc # "raised"
        /\ \A x \in Values : Count(out, x) <= Count(elements, x)
        /\ pc = "done" => SameMultiset(out, elements)

C12_Witness ==
    /\ Traversing("MiddleOutOrder")
    /\ pc = "done"
    /\ elements = <<1, 2, 2, 3>>
    /\ out = <<2, 2, 1, 3>>

\* C13: for each of the six iterator classes, over a container that is not
\* changed, operator* on an exhausted iterator throws std::out_of_range and
\* yields no element: on end(), on an iterator advanced as often as there
\* are elements or more, and on any iterator whose is_end is set.
C13_ExhaustedDerefRaises ==
    pc = "free" =>
        /\ (it.is_end \/ steps >= size(elements))
              => Deref(it, elements) = {OutOfRange}
        /\ \A e \in End(it, elements) : Deref(e, elements) = {OutOfRange}
        /\ last.op = "deref_end" => last.raised = "out_of_range"
        /\ (last.op = "deref" /\ it.is_end) => last.raised = "out_of_range"

C13_Witness ==
    /\ pc = "free"
    /\ it.kind = "AscendingOrder"
    /\ size(elements) = 2
    /\ steps = 2
    /\ it.is_end
    /\ last.op = "deref"
    /\ last.raised = "out_of_range"

\* C14: for each of the six iterator classes, a step of the test from a
\* state whose iterator is exhausted, ++it and it++ among them, leaves the
\* iterator exhausted and equal to end(), and nothing is thrown: the test
\* goes on.
C14_ExhaustedIsTerminal ==
    [][(pc = "free" /\ it.is_end)
          => (pc' = "free" /\ it'.is_end /\ Eq(it', end_it')
                /\ ~Neq(it', end_it'))]_vars

C14_Witness ==
    /\ pc = "free"
    /\ it.kind = "AscendingOrder"
    /\ size(elements) = 2
    /\ steps = size(elements) + MaxExtra
    /\ last.op = "post_inc"
    /\ it.is_end
    /\ Eq(it, end_it)

C16_PositionedThenExhausted ==
    (pc = "free" /\ size(elements) >= 1) =>
        LET n == size(elements)
        IN  /\ steps = 0 => Eq(it, begin_it)
            /\ steps < n =>
                  /\ ~it.is_end
                  /\ \A r \in Deref(it, elements) : r.raised = "none"
                  /\ Neq(it, end_it)
                  /\ last.op = "deref" => last.raised = "none"
            /\ steps >= n => (it.is_end /\ Eq(it, end_it))
            /\ (n = 1 /\ steps = 0) =>
                  Deref(it, elements) = {ContainerAt(elements, 0)}

C16_Witness ==
    /\ pc = "free"
    /\ it.kind = "SideCrossOrder"
    /\ size(elements) = 1
    /\ steps = 1
    /\ it.is_end
    /\ last.op = "eq_end"
    /\ last.eq

SameState(a, b) ==
    \/ a.is_end /\ b.is_end
    \/ ~a.is_end /\ ~b.is_end /\ a.current = b.current

\* C18: for two iterators of one class over one container, operator== is
\* true exactly if both are exhausted or neither is and the cursors are
\* equal, and operator!= is its negation.  A ReverseOrder iterator at index
\* 0 differs from end(), though the cursor of end() is 0 as well.
C18_EqualityIffSameState ==
    pc = "free" =>
        /\ \A a, b \in {Cursor(it), begin_it, end_it} :
              /\ Eq(a, b) <=> SameState(a, b)
              /\ Neq(a, b) <=> ~Eq(a, b)
        /\ last.op \in {"eq_end", "eq_first", "eq_ends"} => last.ne = ~last.eq
        /\ last.op = "eq_end" => (last.eq <=> SameState(it, end_it))
        /\ last.op = "eq_first" => (last.eq <=> SameState(it, begin_it))
        /\ (it.kind = "ReverseOrder" /\ ~it.is_end /\ it.current = 0)
              => (end_it.current = 0 /\ ~Eq(it, end_it) /\ Neq(it, end_it))

C18_Witness ==
    /\ pc = "free"
    /\ it.kind = "ReverseOrder"
    /\ size(elements) = 2
    /\ it.current = 0
    /\ ~it.is_end
    /\ end_it.current = 0
    /\ last.op = "eq_end"
    /\ ~last.eq
    /\ last.ne

\* some element of c equals value
Holds(c, value) == \E k \in 1 .. Len(c) : c[k] = value

\* the position of the first element of c, in insertion order, that equals
\* value
FirstAt(c, value) ==
    CHOOSE k \in 0 .. size(c) - 1 :
        /\ At(c, k) = value
        /\ \A j \in 0 .. k - 1 : At(c, j) # value

\* C19: remove(value) on a container that holds value removes the first
\* element equal to value: nothing is thrown, size() is one less, also with
\* duplicates, the elements ahead of it keep their index and the elements
\* after it move down by one in their order.
C19_RemoveFirstMatch ==
    (last.op = "remove" /\ Holds(before, last.arg)) =>
        LET k == FirstAt(before, last.arg)
        IN  /\ last.raised = "none"
            /\ size(elements) = size(before) - 1
            /\ \A j \in 0 .. k - 1 : At(elements, j) = At(before, j)
            /\ \A j \in k + 1 .. size(before) - 1 :
                  At(elements, j - 1) = At(before, j)

C19_Witness ==
    /\ last.op = "remove"
    /\ last.arg = 2
    /\ before = <<1, 2, 1, 2>>
    /\ elements = <<1, 1, 2>>

\* C20: remove(value) throws std::runtime_error exactly if no element of
\* the container equals value, the empty container included; otherwise it
\* returns.
C20_RemoveThrowsIffAbsent ==
    last.op = "remove" =>
        /\ last.raised \in {"none", "runtime_error"}
        /\ last.raised = "runtime_error" <=> ~Holds(before, last.arg)

C20_Witness ==
    /\ last.op = "remove"
    /\ before = <<>>
    /\ last.raised = "runtime_error"

\* s is t with some of its members left out, the others in their order
RECURSIVE IsSubsequence(_, _)
IsSubsequence(s, t) ==
    IF s = <<>> THEN TRUE
    ELSE IF t = <<>> THEN FALSE
    ELSE IF Head(s) = Head(t) THEN IsSubsequence(Tail(s), Tail(t))
    ELSE IsSubsequence(s, Tail(t))

\* C21: operator[], not const and const, throws std::out_of_range exactly
\* if index >= size(); otherwise it yields the element at that position of
\* the container, whose elements are the values added that were not
\* removed, in the order they were added in.
C21_AccessThrowsIffPastEnd ==
    /\ IsSubsequence(elements, values)
    /\ last.op \in {"at", "at_const"} =>
          /\ last.raised \in {"none", "out_of_range"}
          /\ last.raised = "out_of_range" <=> last.arg >= size(before)
          /\ last.raised = "none" =>
                (last.val = At(before, last.arg) /\ last.idx = last.arg)

C21_Witness ==
    /\ last.op = "at"
    /\ last.arg = 1
    /\ values = <<1, 2, 3>>
    /\ before = <<1, 3>>
    /\ last.raised = "none"
    /\ last.val = 3

\* C22: add(value) returns without a throw, size() is one larger after it,
\* the element at index size()-1 is value and every element there was
\* before is unchanged at its index.
C22_AddAppends ==
    last.op = "add" =>
        /\ last.raised = "none"
        /\ size(elements) = size(before) + 1
        /\ At(elements, size(elements) - 1) = last.arg
        /\ \A j \in 0 .. size(before) - 1 : At(elements, j) = At(before, j)

C22_Witness ==
    /\ last.op = "add"
    /\ last.arg = 2
    /\ before = <<1, 3>>
    /\ elements = <<1, 3, 2>>

\* the renderings of the members of c with one comma between neighbours
RECURSIVE Joined(_)
Joined(c) ==
    IF c = <<>> THEN <<>>
    ELSE IF Len(c) = 1 THEN IntText(c[1])
    ELSE IntText(c[1]) \o <<",">> \o Joined(Tail(c))

\* C23: the text operator<< writes for a container is "[", the renderings
\* of the elements in order with a single comma between neighbours, no
\* space and no comma after the last, and "]"; for the empty container it
\* is "[]".
C23_RenderingIsBracketedList ==
    last.op = "print" =>
        /\ text = <<"[">> \o Joined(elements) \o <<"]">>
        /\ size(elements) = 0 => text = <<"[", "]">>
        /\ Count(text, " ") = 0
        /\ Count(text, ",") = IF size(elements) = 0 THEN 0
                              ELSE size(elements) - 1
        /\ text[Len(text) - 1] # ","

C23_Witness ==
    /\ last.op = "print"
    /\ elements = <<1, 2, 3>>
    /\ text = <<"[", "1", ",", "2", ",", "3", "]">>

----------------------------------------------------------------------------
(* C24 *)

\* C24: no operation on an iterator changes the container: from the factory
\* call on (begin and end included), through every copy, assignment,
\* advance, dereference and comparison, the container has the size and, at
\* every index, the element it had before the step
C24_IteratorsLeaveCollection ==
    [][pc' = "free" =>
          /\ size(elements') = size(elements)
          /\ \A j \in 0 .. size(elements) - 1 :
                At(elements', j) = At(elements, j)]_vars

\* an iterator of a container not in ascending order was made, advanced,
\* copied and assigned
C24_Witness ==
    /\ pc = "free"
    /\ elements = <<2, 1>>
    /\ it.kind = "AscendingOrder"
    /\ it.current = 1
    /\ it2 = it
    /\ last.op = "assign"

----------------------------------------------------------------------------
(* C26 *)

\* C26: an iterator made by copy construction or by assignment has the
\* cursor and the is_end flag of the original and dereferences to what the
\* original dereferences to; advancing either of two iterators of a
\* container, one a copy of the other or both from calls of the factory,
\* changes neither the other iterator nor what it dereferences to
C26_CopiesAreIndependent ==
    [][/\ last'.op \in {"copy", "assign"} =>
             /\ it' = it
             /\ it2'.kind = it'.kind
             /\ it2'.current = it'.current
             /\ it2'.is_end = it'.is_end
             /\ Deref(it2', elements') = Deref(it', elements')
       /\ (last'.op = "pre_inc" /\ it2 # NoIter) =>
             /\ it2' = it2
             /\ Deref(it2', elements') = Deref(it2, elements)
       /\ last'.op = "pre_inc2" =>
             /\ it' = it
             /\ Deref(it', elements') = Deref(it, elements)
       /\ last'.op = "take" =>
             /\ it' = it
             /\ it2' \in FactoryOf(it, elements)]_vars

\* a copy of a reverse iterator at the front element was made, the
\* original went on to the end, the copy still yields the front element
C26_Witness ==
    /\ last.op = "pre_inc"
    /\ elements = <<1, 2>>
    /\ it.kind = "ReverseOrder"
    /\ it.is_end
    /\ it2.kind = "ReverseOrder"
    /\ ~it2.is_end
    /\ Deref(it2, elements) = {[raised |-> "none", val |-> 1, idx |-> 0]}

----------------------------------------------------------------------------
(* C27 *)

\* C27: "it++" returns an iterator with the cursor and the is_end flag the
\* iterator had before the call, which dereferences to what the iterator
\* dereferenced to before the call, and leaves the iterator as "++it" from
\* the same state leaves it: unchanged if is_end was set
C27_PostIncrementReturnsOld ==
    [][last'.op = "post_inc" =>
          /\ it2'.kind = it.kind
          /\ it2'.current = it.current
          /\ it2'.is_end = it.is_end
          /\ Deref(it2', elements') = Deref(it, elements)
          /\ it' = Inc(it, elements)
          /\ it.is_end => it' = it]_vars

\* "auto old = it++" on the iterator of order() over [1, 2]: *old is the
\* element 1 and *it the element 2
C27_Witness ==
    /\ last.op = "post_inc"
    /\ elements = <<1, 2>>
    /\ it.kind = "Order"
    /\ steps = 1
    /\ Deref(it2, elements) = {[raised |-> "none", val |-> 1, idx |-> 0]}
    /\ Deref(it, elements) = {[raised |-> "none", val |-> 2, idx |-> 1]}

----------------------------------------------------------------------------
(* C28 *)

\* the rank (from 0) of the position j of c in the stable ascending order:
\* the number of positions whose value is smaller, or equal at a lower
\* position
StableRank(c, j) ==
    Cardinality({i \in 0 .. size(c) - 1 :
                    \/ At(c, i) < At(c, j)
                    \/ (At(c, i) = At(c, j) /\ i < j)})

\* C28: the index vector of a SideCrossOrder iterator is the left/right
\* interleave of the stable ascending order of the positions (among equal
\* values the lower position is the smaller): it holds the position of rank
\* k at 2k and the position of rank n-1-k at 2k+1, the traversal reads the
\* positions in that sequence, and the constructor can build no other
\* vector from the same elements
C28_SideCrossStableInterleave ==
    Traversing("SideCrossOrder") =>
        LET n == size(elements)
        IN  /\ n >= 1 => Len(it.indices) = n
            /\ \A p \in 0 .. Len(it.indices) - 1 :
                  StableRank(elements, At(it.indices, p)) =
                      IF p % 2 = 0 THEN p \div 2 ELSE n - 1 - (p \div 2)
            /\ \A k \in 1 .. Len(reads) : reads[k] = it.indices[k]
            /\ {b.indices : b \in side_cross_order(elements)}
                   = {it.indices}

\* equal values on both sides: the positions 1 and 3 hold the smallest
\* value, the positions 0 and 2 the largest
C28_Witness ==
    /\ Traversing("SideCrossOrder")
    /\ pc = "done"
    /\ elements = <<2, 1, 2, 1>>
    /\ reads = <<1, 2, 3, 0>>

----------------------------------------------------------------------------
(* C29 *)

\* what the loop "for (; i != e; ++i) yield *i" over the container c may
\* yield in at most fuel passes: the values in their order, closed by the
\* name of the exception if operator* throws
RECURSIVE Yields(_, _, _, _)
Yields(i, e, c, fuel) ==
    IF fuel = 0 \/ Eq(i, e)
    THEN {<<>>}
    ELSE UNION {IF r.raised = "none"
                THEN {<<r.val>> \o rest :
                         rest \in Yields(Inc(i, c), e, c, fuel - 1)}
                ELSE {<<r.raised>>} :
                   r \in Deref(i, c)}

\* C29: traversal is deterministic: the iterators of one class that the
\* factory or begin() may build over a container with given elements, each
\* walked up to an end() iterator, all yield one and the same sequence of
\* values, of the length of the container and without an exception
C29_TraversalDeterministic ==
    pc = "made" =>
        LET firsts == FactoryOf(it, elements) \cup Begin(it, elements)
            ends   == {Cursor(e) : e \in End(it, elements)}
            all    == UNION {Yields(b, e, elements, size(elements) + 1) :
                                b \in firsts, e \in ends}
        IN  /\ Cardinality(all) = 1
            /\ \A y \in all :
                  /\ Len(y) = size(elements)
                  /\ \A k \in 1 .. Len(y) : y[k] \in Values

\* equal values in the container: std::sort may order their positions
\* either way, and the iterators yield the same values
C29_Witness ==
    /\ pc = "made"
    /\ it.kind = "AscendingOrder"
    /\ elements = <<2, 1, 2, 1>>
    /\ Cardinality({b.indices : b \in ascending_order(elements)}) > 1
    /\ \A b \in ascending_order(elements) :
          \A e \in AscendingOrderEnd(b, elements) :
              Yields(b, e, elements, 5) = {<<1, 1, 2, 2>>}

----------------------------------------------------------------------------
(* C25 *)

\* the classes whose iterators hold an index vector
Permuted ==
    {"AscendingOrder", "DescendingOrder", "SideCrossOrder", "MiddleOutOrder"}

\* C25: the index vector of an iterator that a factory of one of the four
\* classes returns is built in the constructor, with one entry for each
\* element the container has then; no later call of add or remove on the
\* container and no advance of the iterator changes it
C25_PermutationIsSnapshot ==
    [][/\ (pc = "build" /\ pc' = "free" /\ it'.kind \in Permuted) =>
             /\ Len(it'.indices) = size(elements)
             /\ IsPermutation(it'.indices, size(elements))
       /\ (pc = "free" /\ it.kind \in Permuted) =>
             it'.indices = it.indices]_vars

\* an iterator made over [2, 1] and advanced, and an element added since
C25_Witness ==
    /\ pc = "free"
    /\ it.kind = "AscendingOrder"
    /\ it.indices = <<1, 0>>
    /\ it.current = 1
    /\ elements = <<2, 1, 3>>
    /\ changes = 1
    /\ last.op = "pre_inc"

----------------------------------------------------------------------------
(* C30 *)

\* C30: an iterator whose is_end flag is set stays exhausted when the
\* container grows: whatever add calls came in between, operator* on it has
\* std::out_of_range as its only outcome, so it returns no element and does
\* not read its index vector past the end
C30_ExhaustedStaysExhausted ==
    (pc = "free" /\ it.is_end) =>
        /\ Deref(it, elements) = {OutOfRange}
        /\ last.op = "deref" => last.raised = "out_of_range"

----------------------------------------------------------------------------
(* C31, C32 *)

\* operator* on the iterator i over the container c stays in bounds: either
\* std::out_of_range is its only outcome, or the cursor is below the length
\* of the index vector, the position stored there is below size(), and the
\* only outcome is the element at that position
DerefInBounds(i, c) ==
    \/ Deref(i, c) = {OutOfRange}
    \/ /\ i.current < Len(i.indices)
       /\ At(i.indices, i.current) < size(c)
       /\ Deref(i, c) = {ContainerAt(c, At(i.indices, i.current))}

\* C31: with add and remove calls on the container in between the advances
\* and dereferences of an AscendingOrder or DescendingOrder iterator made
\* before, every dereference throws std::out_of_range or reads its index
\* vector below its length and the container below size()
C31_SortedDerefInBounds ==
    (pc = "free" /\ it.kind \in {"AscendingOrder", "DescendingOrder"}) =>
        /\ DerefInBounds(it, elements)
        /\ last.op = "deref" => last.raised \in {"none", "out_of_range"}

\* C32: with add and remove calls on the container in between the advances
\* and dereferences of a SideCrossOrder or MiddleOutOrder iterator made
\* before, every dereference throws std::out_of_range or reads its index
\* vector below its length and the container below size(), and after as
\* many advances as the index vector is long the iterator is exhausted
C32_CompositeDerefInBounds ==
    (pc = "free" /\ it.kind \in {"SideCrossOrder", "MiddleOutOrder"}) =>
        /\ DerefInBounds(it, elements)
        /\ last.op = "deref" => last.raised \in {"none", "out_of_range"}
        /\ steps >= Len(it.indices) => it.is_end
        /\ it.current <= Len(it.indices)

\* the iterator was made over [2, 1]; the element 1 was removed since, and
\* the first position of the index vector, 1, is no longer in the container
C32_Witness ==
    /\ pc = "free"
    /\ it.kind = "SideCrossOrder"
    /\ it.indices = <<1, 0>>
    /\ it.current = 0
    /\ ~it.is_end
    /\ elements = <<2>>
    /\ last.op = "deref"
    /\ last.raised = "out_of_range"

----------------------------------------------------------------------------
(* C33 *)

\* the stores of the MiddleOutOrder constructor for n >= 1 elements, made
\* on the vector blank of n slots in place of the resized one
MiddleOutOver(n, blank) ==
    LET mid == n \div 2
    IN  IF n % 2 = 0
        THEN MiddleOutEvenLoop(
                 n, mid,
                 <<Store(Store(blank, 0, SizeSub(mid, 1)), 1, mid), 2>>, 1)
        ELSE MiddleOutOddLoop(n, mid, <<Store(blank, 0, mid), 1>>, 1)

\* C33: for a container of n >= 1 elements the MiddleOutOrder constructor
\* writes every slot 0 .. n-1 of indices (a vector of n slots that held the
\* value SizeMod, which no size_t is, comes out the same as the resized
\* one), and every value it writes is below n: none is the result of a
\* subtraction that wrapped below zero, which would be SizeMod - n or more
C33_MiddleOutWritesInRange ==
    (Traversing("MiddleOutOrder") /\ size(elements) >= 1) =>
        LET n == size(elements)
        IN  \A e \in {it} \cup MiddleOutOrder(elements, TRUE) :
                /\ Len(e.indices) = n
                /\ \A k \in 0 .. n - 1 :
                      /\ At(e.indices, k) >= 0
                      /\ At(e.indices, k) < n
                /\ MiddleOutOver(n, [k \in 1 .. n |-> SizeMod]) = e.indices

\* two elements: mid - 1 is 0, the loop, where mid - 1 - i would wrap, is
\* not entered
C33_Witness ==
    /\ Traversing("MiddleOutOrder")
    /\ pc = "done"
    /\ elements = <<1, 2>>
    /\ it.indices = <<0, 1>>
    /\ reads = <<0, 1>>

----------------------------------------------------------------------------
(* C34 *)

\* the interleave loop of the SideCrossOrder constructor over n elements,
\* from its start
SideCrossRun(n) == SideCrossLoopTrace(0, 0, SizeSub(n, 1), <<>>)

\* the interleave loop over the elements ends with each of the n slots of
\* indices written once, in the order 0 .. n-1, with right not wrapped
\* below zero, and the index vector holds every position once
SideCrossFillsEverySlot ==
    LET n == size(elements)
    IN  /\ SideCrossRun(n).slots = Iota(n)
        /\ SideCrossRun(n).idx < n + 1
        /\ SideCrossRun(n).right < n
        /\ IsPermutation(it.indices, n)
        /\ \A sorted \in SideCrossSorted(elements) :
              SideCrossLoop(sorted, [k \in 1 .. n |-> SizeMod], 0, 0,
                            SizeSub(n, 1)) = it.indices

\* C34 as claimed: for n >= 1 the loop ends with the n slots written once
\* each and the index vector a bijection onto 0 .. n-1, right never goes
\* below zero, and left and right do not cross without meeting: the loop
\* ends in the branch "left == right"
C34_SideCrossLoopMeets ==
    (Traversing("SideCrossOrder") /\ size(elements) >= 1) =>
        /\ SideCrossFillsEverySlot
        /\ SideCrossRun(size(elements)).met

\* C34 as amended: for n >= 1 the loop ends with the n slots written once
\* each and the index vector a bijection onto 0 .. n-1, and right never goes
\* below zero; for odd n left and right meet and the loop ends in the branch
\* "left == right", for even n they never meet: the loop ends when they have
\* crossed by one, left = right + 1 = n / 2
C34_SideCrossLoopFills ==
    (Traversing("SideCrossOrder") /\ size(elements) >= 1) =>
        LET n   == size(elements)
            run == SideCrossRun(n)
        IN  /\ SideCrossFillsEverySlot
            /\ n % 2 = 1 => (run.met /\ run.left = run.right
                               /\ run.left = n \div 2)
            /\ n % 2 = 0 => (~run.met /\ run.left = run.right + 1
                               /\ run.left = n \div 2)

\* four elements: two passes, after which left is 2 and right is 1
C34_Witness ==
    /\ Traversing("SideCrossOrder")
    /\ pc = "done"
    /\ elements = <<3, 1, 2, 1>>
    /\ it.indices = <<1, 0, 3, 2>>
    /\ SideCrossRun(4).left = 2
    /\ SideCrossRun(4).right = 1

----------------------------------------------------------------------------
(* C35 *)

\* the highest position a ReverseOrder cursor may hold over the container c
LastPosition(c) == IF size(c) = 0 THEN 0 ELSE size(c) - 1

\* C35: over a container that is not changed, the cursor of a ReverseOrder
\* iterator (the one in use, its begin() and its end()) is within
\* 0 .. max(size() - 1, 0) after every step, and an advance from the cursor
\* 0 sets is_end and leaves the cursor at 0: the size_t is not decremented
\* below zero
C35_ReverseCursorInRange ==
    [][it'.kind = "ReverseOrder" =>
          /\ \A i \in {it', begin_it', end_it'} :
                i.current \in 0 .. LastPosition(elements')
          /\ (it.kind = "ReverseOrder" /\ ~it.is_end /\ it.current = 0
                 /\ last'.op \in {"pre_inc", "post_inc"}) =>
                (it'.is_end /\ it'.current = 0)
          /\ (it.kind = "ReverseOrder" /\ ~it.is_end /\ it.current > 0
                 /\ last'.op \in {"pre_inc", "post_inc"}) =>
                (~it'.is_end /\ it'.current = it.current - 1)]_vars

\* a ReverseOrder iterator over three elements, advanced once more than
\* there are elements
C35_Witness ==
    /\ pc = "free"
    /\ it.kind = "ReverseOrder"
    /\ size(elements) = 3
    /\ steps = 4
    /\ it.is_end
    /\ it.current = 0
    /\ last.op = "pre_inc"

----------------------------------------------------------------------------
(* C36 *)

\* C36: a call that fails leaves the container as it was: after remove has
\* thrown std::runtime_error, and after operator[] (const or not) has thrown
\* std::out_of_range, size() and the element at every index are what they
\* were before the call
C36_FailedCallChangesNothing ==
    (\/ last.op = "remove" /\ last.raised = "runtime_error"
     \/ last.op \in {"at", "at_const"} /\ last.raised = "out_of_range") =>
        /\ size(elements) = size(before)
        /\ \A j \in 0 .. size(before) - 1 : At(elements, j) = At(before, j)

\* remove(3) on [1, 2, 1] has thrown
C36_Witness ==
    /\ last.op = "remove"
    /\ last.arg = 3
    /\ last.raised = "runtime_error"
    /\ before = <<1, 2, 1>>
    /\ elements = <<1, 2, 1>>

----------------------------------------------------------------------------
(* C37 *)

\* the cursor of an iterator of the class kind at the first position of its
\* traversal of the container c
FirstCursor(kind, c) ==
    IF kind = "ReverseOrder" /\ size(c) > 0 THEN size(c) - 1 ELSE 0

\* C37: begin() and end() called on an iterator do not depend on where that
\* iterator stands: however far it has been advanced, begin() returns an
\* iterator at the first position of the traversal, with the cursor and the
\* flag of what begin() returned on the fresh iterator, exhausted only over
\* an empty container; end() returns an exhausted iterator, with the cursor
\* and the flag of what end() returned on the fresh iterator
C37_BeginEndIgnoreCursor ==
    pc = "free" =>
        /\ {Cursor(b) : b \in Begin(it, elements)} = {begin_it}
        /\ begin_it.is_end <=> size(elements) = 0
        /\ size(elements) > 0 =>
              begin_it.current = FirstCursor(it.kind, elements)
        /\ {Cursor(e) : e \in End(it, elements)} = {end_it}
        /\ end_it.is_end
        /\ last.op = "eq_first" => (last.eq <=> SameState(it, begin_it))
        /\ last.op = "eq_end" => (last.eq <=> it.is_end)

\* "it == it.end()" on an iterator advanced past the end
C37_Witness ==
    /\ pc = "free"
    /\ it.kind = "Order"
    /\ size(elements) = 2
    /\ steps = 3
    /\ it.is_end
    /\ last.op = "eq_end"
    /\ last.eq
    /\ \A b \in Begin(it, elements) : b.current = 0 /\ ~b.is_end

============================================================================
